---- MODULE Spec2Model ----
(***************************************************************************)
(* State-machine model of src/src/main.rs: the Bevy frame loop with the    *)
(* six Update systems (keybinds, game_setting, ground_change_detector,     *)
(* mouse_free_look, mouse_movement, stay_inside_big_ball_system), the      *)
(* settings panel (game_ui) and the external physics step.                 *)
(*                                                                         *)
(* Numbers.  Lengths and velocities are integers in hundredths of the      *)
(* source's unit (14.0 is 1400, 0.2 is 20).  Vectors are triples.  The     *)
(* inputs are drawn from vectors whose length is an integer, so that       *)
(* length(), normalize() and the reflection are exact.                     *)
(* The camera orientation is the pair (yaw, pitch) of the angles applied   *)
(* so far to the orientation built by setup_camera: pre-multiplying a yaw  *)
(* rotation and post-multiplying a pitch rotation onto Y(a)*X(b) gives     *)
(* Y(a+yaw)*X(b+pitch).  Angles count in units of a full turn / AngleMod.  *)
(* The camera translation is kept as the path length travelled, in units   *)
(* of speed * one time step (every displacement has that length, its       *)
(* direction being normalized).                                            *)
(***************************************************************************)
EXTENDS Integers, Sequences, FiniteSets, TLC

VARIABLES
    phase,              \* schedule of the frame that runs next: First, Update, PostUpdate
    ran,                \* systems of the current schedule that have run in this frame
    keyboard,           \* ButtonInput<KeyCode>: [pressed, just_pressed]
    mouse_motion,       \* MouseMotion events readable in this frame
    delta_secs,         \* Time::delta_secs of this frame
    window,             \* PrimaryWindow: cursor_options and present_mode
    cam,                \* RotataCamera transform: [yaw, pitch, steps]
    VSYNC,
    BALL_COUNTER,
    MOUSE_SENSITIVITY,
    GROUND_SIZE,
    prev,               \* PreviousGroundSize.0
    grounds,            \* entities with the Ground component: [id, dims]
    commands,           \* deferred Commands queued in the Update schedule
    ball                \* the SmallBall entity: [pos, vel, radius]

vars == <<phase, ran, keyboard, mouse_motion, delta_secs, window, cam, VSYNC,
          BALL_COUNTER, MOUSE_SENSITIVITY, GROUND_SIZE, prev, grounds, commands, ball>>

inputVars == <<keyboard, mouse_motion, delta_secs>>
settingVars == <<VSYNC, BALL_COUNTER, MOUSE_SENSITIVITY, GROUND_SIZE>>
groundVars == <<prev, grounds, commands>>

----------------------------------------------------------------------------
(* Bounds of the model *)

AngleMod == 3           \* angle units in a full turn
MaxCamSteps == 2        \* cap on the camera's path length

----------------------------------------------------------------------------
(* Vectors *)

ZERO == <<0, 0, 0>>
NaN == <<>>             \* a vector whose components are NaN

Add(a, b) == <<a[1] + b[1], a[2] + b[2], a[3] + b[3]>>
Sub(a, b) == <<a[1] - b[1], a[2] - b[2], a[3] - b[3]>>
Neg(a) == <<0 - a[1], 0 - a[2], 0 - a[3]>>
Dot(a, b) == a[1] * b[1] + a[2] * b[2] + a[3] * b[3]

\* Exact quotient, rounding to zero like a float division that happens to be exact
Quot(a, b) == IF a >= 0 THEN a \div b ELSE 0 - ((0 - a) \div b)

RECURSIVE SqrtBetween(_, _, _)
SqrtBetween(n, lo, hi) ==
    IF hi - lo <= 1 THEN lo
    ELSE LET mid == (lo + hi) \div 2
         IN IF mid * mid <= n THEN SqrtBetween(n, mid, hi) ELSE SqrtBetween(n, lo, mid)

\* the integer square root, for n below 46340 * 46340
Sqrt(n) == SqrtBetween(n, 0, IF n < 46340 THEN n + 1 ELSE 46340)

\* Vec3::length
Length(v) == Sqrt(Dot(v, v))

\* Vec3::normalize: v * (1 / |v|), kept as the fraction [num, den]; the zero
\* vector gives 0 * (1 / 0), a vector of NaN: the fraction with den = 0
Normalize(v) == [num |-> v, den |-> Length(v)]

IsNaN(dir) == dir.den = 0

\* dir * s for a normalized dir and a scalar s
Scaled(dir, s) ==
    IF IsNaN(dir) THEN NaN
    ELSE <<Quot(dir.num[1] * s, dir.den), Quot(dir.num[2] * s, dir.den),
           Quot(dir.num[3] * s, dir.den)>>

----------------------------------------------------------------------------
(* ContainmentPhysics: stay_inside_big_ball_system *)

big_ball_radius == 1400
big_ball_center == <<0, 1400 + 500, 0>>
buffer == 20
small_ball_radius(b) == b.radius

max_distance(b) == big_ball_radius - small_ball_radius(b) - buffer

\* velocity.linvel.dot(normal) for normal = [num, den]: the fraction [num, den]
DotFrac(v, n) == [num |-> Dot(v, n.num), den |-> n.den]

\* v - 2.0 * dot_product * normal
Reflect(v, dot, n) ==
    <<v[1] - Quot(2 * dot.num * n.num[1], dot.den * n.den),
      v[2] - Quot(2 * dot.num * n.num[2], dot.den * n.den),
      v[3] - Quot(2 * dot.num * n.num[3], dot.den * n.den)>>

\* if distance > max_distance; the variant corrects at every distance
Outside_or_centre(distance, b) == distance >= 0
Outside(distance, b) == distance > max_distance(b)

\* transform.translation = big_ball_center + dir * max_distance; the variant
\* puts the ball on the boundary itself
Reposition_to_surface(dir, b) == Add(big_ball_center, Scaled(dir, big_ball_radius))
Reposition(dir, b) == Add(big_ball_center, Scaled(dir, max_distance(b)))

\* if dot_product < 0.0; the variant reflects every corrected ball
Bounces_always(dot_product) == TRUE
Bounces(dot_product) == dot_product.num < 0

\* The body of the loop of stay_inside_big_ball_system for one SmallBall.
\* A NaN translation makes every comparison false and is left as it is; a NaN
\* direction makes the translation NaN and the comparison of the dot product false.
CorrectBall(b) ==
    IF b.pos = NaN THEN b
    ELSE
    LET to_small_ball == Sub(b.pos, big_ball_center)
        distance == Length(to_small_ball)
    IN  IF Outside(distance, b)
        THEN LET dir == Normalize(to_small_ball)
             IN  IF IsNaN(dir)
                 THEN [b EXCEPT !.pos = NaN]
                 ELSE LET translation == Reposition(dir, b)
                          normal == [num |-> Neg(dir.num), den |-> dir.den]
                          dot_product == DotFrac(b.vel, normal)
                      IN  IF Bounces(dot_product)
                          THEN [b EXCEPT !.pos = translation,
                                         !.vel = Reflect(b.vel, dot_product, normal)]
                          ELSE [b EXCEPT !.pos = translation]
        ELSE b

----------------------------------------------------------------------------
(* CursorCaptureController and FreeLookCameraController *)

\* lock_hide_cursor with a release that keeps the grab mode
lock_hide_cursor_keep_grab(w) ==
    IF w.visible = TRUE /\ w.grab_mode = "None"
    THEN [w EXCEPT !.visible = FALSE, !.grab_mode = "Confined"]
    ELSE [w EXCEPT !.visible = TRUE]

\* lock_hide_cursor with the two assignments to hit_test put back
lock_hide_cursor_hit_test(w) ==
    IF w.visible = TRUE /\ w.grab_mode = "None"
    THEN [w EXCEPT !.visible = FALSE, !.grab_mode = "Confined", !.hit_test = FALSE]
    ELSE [w EXCEPT !.visible = TRUE, !.grab_mode = "None", !.hit_test = TRUE]

\* lock_hide_cursor: the two assignments to hit_test are commented out in the source
lock_hide_cursor(w) ==
    IF w.visible = TRUE /\ w.grab_mode = "None"
    THEN [w EXCEPT !.visible = FALSE, !.grab_mode = "Confined"]
    ELSE [w EXCEPT !.visible = TRUE, !.grab_mode = "None"]

\* move_up: direction = up, never zero; translation += direction * speed * delta_secs
move_up(c, dt) == [c EXCEPT !.steps = c.steps + dt]

\* the loop of mouse_free_look over the events read
RECURSIVE ReadEvents(_, _, _, _)
ReadEvents(c, events, sens, dt) ==
    IF events = <<>> THEN c
    ELSE LET delta == <<events[1][1] * sens * dt, events[1][2] * sens * dt>>
             yawed == [c EXCEPT !.yaw = (c.yaw - delta[1]) % AngleMod]
             pitched == [yawed EXCEPT !.pitch = (yawed.pitch - delta[2]) % AngleMod]
         IN  ReadEvents(pitched, Tail(events), sens, dt)

\* mouse_free_look without the test of the cursor
FreeLook_ungated(c, w, events, sens, dt) == ReadEvents(c, events, sens, dt)

\* mouse_free_look: rotate only while the cursor is hidden
FreeLook(c, w, events, sens, dt) ==
    IF w.visible = FALSE THEN ReadEvents(c, events, sens, dt) ELSE c

\* mouse_movement: forward + back and left + right cancel; a non-zero direction
\* is normalized and moves the camera by speed * delta_secs
Moving(pressed) ==
    (("KeyW" \in pressed) # ("KeyS" \in pressed)) \/ (("KeyA" \in pressed) # ("KeyD" \in pressed))

Movement(c, pressed, dt) ==
    IF Moving(pressed) THEN [c EXCEPT !.steps = c.steps + dt] ELSE c

\* game_setting
PresentModeOf(vsync) == IF vsync = TRUE THEN "AutoVsync" ELSE "AutoNoVsync"

----------------------------------------------------------------------------
(* GroundSynchronizer *)

Ids(gs) == {g.id : g \in gs}

RECURSIVE SpawnedIds(_)
SpawnedIds(cmds) ==
    IF cmds = <<>> THEN {}
    ELSE (IF cmds[1].op = "spawn" THEN {cmds[1].id} ELSE {}) \cup SpawnedIds(Tail(cmds))

\* Commands::spawn reserves an entity at once: the first index not in use
FreshId(gs, cmds) ==
    CHOOSE i \in 0..(Cardinality(gs) + Len(cmds)) :
        /\ i \notin Ids(gs) \cup SpawnedIds(cmds)
        /\ \A j \in 0..(i - 1) : j \in Ids(gs) \cup SpawnedIds(cmds)

\* a detector that despawns nothing
DespawnNone(cmds, ids) == cmds

\* for entity in query.iter() { commands.entity(entity).despawn(); }
RECURSIVE DespawnAll(_, _)
DespawnAll(cmds, ids) ==
    IF ids = {} THEN cmds
    ELSE LET i == CHOOSE x \in ids : \A y \in ids : x <= y
         IN  DespawnAll(Append(cmds, [op |-> "despawn", id |-> i, dims |-> ZERO]), ids \ {i})

\* spawn_ground: reads GROUND_SIZE itself
spawn_ground(cmds, gs, size) ==
    Append(cmds, [op |-> "spawn", id |-> FreshId(gs, cmds), dims |-> size])

\* if current != prev.0; the variant regenerates in every frame
Changed_always(current, p) == TRUE
Changed(current, p) == current # p

\* ground_change_detector: the new [prev, commands]
GroundChange(current, p, gs, cmds) ==
    IF Changed(current, p)
    THEN [prev |-> current, commands |-> spawn_ground(DespawnAll(cmds, Ids(gs)), gs, current)]
    ELSE [prev |-> p, commands |-> cmds]

\* the command queue applied at the end of the schedule
RECURSIVE Apply(_, _)
Apply(gs, cmds) ==
    IF cmds = <<>> THEN gs
    ELSE LET c == cmds[1]
         IN  Apply(IF c.op = "spawn"
                   THEN gs \cup {[id |-> c.id, dims |-> c.dims]}
                   ELSE {g \in gs : g.id # c.id},
                   Tail(cmds))

----------------------------------------------------------------------------
(* The frame loop *)

UpdateSystems == {"keybinds", "game_setting", "ground_change_detector",
                  "mouse_free_look", "mouse_movement", "stay_inside_big_ball_system"}

\* what runs after Update: the physics plugin's step and the EguiContextPass schedule
PostUpdateSystems == {"physics", "game_ui"}

\* setup, setup_camera, setup_light and the window's defaults, commands applied
Init ==
    /\ phase = "First"
    /\ ran = {}
    /\ keyboard = [pressed |-> {}, just_pressed |-> {}]
    /\ mouse_motion = <<>>
    /\ delta_secs = 0
    /\ window = [visible |-> TRUE, grab_mode |-> "None", hit_test |-> TRUE,
                 present_mode |-> "Fifo"]
    /\ cam = [yaw |-> 0, pitch |-> 0, steps |-> 0]
    /\ VSYNC = FALSE
    /\ BALL_COUNTER = 1
    /\ MOUSE_SENSITIVITY = 5
    /\ GROUND_SIZE = <<2000, 100, 1500>>
    /\ prev = ZERO
    /\ grounds = {[id |-> 0, dims |-> <<2000, 100, 1500>>]}
    /\ commands = <<>>
    /\ ball = [pos |-> <<0, 1200, 0>>, vel |-> ZERO, radius |-> 50]

\* a schedule that lets a system run again in the same frame
Runs_again(name) ==
    /\ phase = "Update"
    /\ name \in UpdateSystems
    /\ ran' = ran \cup {name}
    /\ phase' = phase

\* a system of the Update schedule takes its turn, once per frame, in any order
Runs(name) ==
    /\ phase = "Update"
    /\ name \notin ran
    /\ ran' = ran \cup {name}
    /\ phase' = phase

\* First and PreUpdate: the keys held, the pointer motion and the frame time
InputSampling(KeySets, EventSets, Dts) ==
    /\ phase = "First"
    /\ \E pressed \in KeySets, events \in EventSets, dt \in Dts :
          /\ (Moving(pressed) \/ "Space" \in pressed) => cam.steps + 2 * dt <= MaxCamSteps
          /\ keyboard' = [pressed |-> pressed, just_pressed |-> pressed \ keyboard.pressed]
          /\ mouse_motion' = events
          /\ delta_secs' = dt
    /\ phase' = "Update"
    /\ UNCHANGED <<ran, window, cam, settingVars, groundVars, ball>>

keybinds ==
    /\ Runs("keybinds")
    /\ window' = IF "ControlLeft" \in keyboard.just_pressed
                 THEN lock_hide_cursor(window) ELSE window
    /\ cam' = IF "Space" \in keyboard.pressed THEN move_up(cam, delta_secs) ELSE cam
    /\ UNCHANGED <<inputVars, settingVars, groundVars, ball>>

game_setting ==
    /\ Runs("game_setting")
    /\ window' = [window EXCEPT !.present_mode = PresentModeOf(VSYNC)]
    /\ UNCHANGED <<inputVars, cam, settingVars, groundVars, ball>>

ground_change_detector ==
    /\ Runs("ground_change_detector")
    /\ LET r == GroundChange(GROUND_SIZE, prev, grounds, commands)
       IN  prev' = r.prev /\ commands' = r.commands
    /\ UNCHANGED <<inputVars, window, cam, settingVars, grounds, ball>>

mouse_free_look ==
    /\ Runs("mouse_free_look")
    /\ cam' = FreeLook(cam, window, mouse_motion, MOUSE_SENSITIVITY, delta_secs)
    /\ UNCHANGED <<inputVars, window, settingVars, groundVars, ball>>

mouse_movement ==
    /\ Runs("mouse_movement")
    /\ cam' = Movement(cam, keyboard.pressed, delta_secs)
    /\ UNCHANGED <<inputVars, window, settingVars, groundVars, ball>>

stay_inside_big_ball_system ==
    /\ Runs("stay_inside_big_ball_system")
    /\ ball' = CorrectBall(ball)
    /\ UNCHANGED <<inputVars, window, cam, settingVars, groundVars>>

\* the end of the Update schedule: the queued commands are applied
ApplyDeferred ==
    /\ phase = "Update"
    /\ ran = UpdateSystems
    /\ grounds' = Apply(grounds, commands)
    /\ commands' = <<>>
    /\ phase' = "PostUpdate"
    /\ ran' = {}
    /\ UNCHANGED <<inputVars, window, cam, settingVars, prev, ball>>

\* RapierPhysicsPlugin steps the simulation in PostUpdate: gravity and collisions
\* move the ball to any position and velocity
PhysicsStep(Bodies) ==
    /\ phase = "PostUpdate"
    /\ "physics" \notin ran
    /\ \E b \in Bodies : ball' = [ball EXCEPT !.pos = b.pos, !.vel = b.vel]
    /\ ran' = ran \cup {"physics"}
    /\ UNCHANGED <<phase, inputVars, window, cam, settingVars, groundVars>>

\* game_ui: the panel's checkbox and sliders, each clamped to its range
min_ball == 0
max_ball == 100
min_sensi == 1
max_sensi == 10

InRange(s) ==
    /\ s.vsync \in BOOLEAN
    /\ s.ball_counter \in min_ball..max_ball
    /\ s.sensitivity \in min_sensi..max_sensi
    /\ s.ground[1] \in 1000..10000
    /\ s.ground[2] \in 50..200
    /\ s.ground[3] \in 1000..10000

game_ui(Settings) ==
    /\ phase = "PostUpdate"
    /\ "game_ui" \notin ran
    /\ \E s \in Settings \cup {[vsync |-> VSYNC, ball_counter |-> BALL_COUNTER,
                              sensitivity |-> MOUSE_SENSITIVITY, ground |-> GROUND_SIZE]} :
          /\ InRange(s)
          /\ VSYNC' = s.vsync
          /\ BALL_COUNTER' = s.ball_counter
          /\ MOUSE_SENSITIVITY' = s.sensitivity
          /\ GROUND_SIZE' = s.ground
    /\ ran' = ran \cup {"game_ui"}
    /\ UNCHANGED <<phase, inputVars, window, cam, groundVars, ball>>

\* the frame is rendered and the next one begins
Render ==
    /\ phase = "PostUpdate"
    /\ ran = PostUpdateSystems
    /\ phase' = "First"
    /\ ran' = {}
    /\ UNCHANGED <<inputVars, window, cam, settingVars, groundVars, ball>>

\* one frame after the other, over the inputs in.keys, in.events, in.dts,
\* in.settings and in.bodies
Next(in) ==
    \/ InputSampling(in.keys, in.events, in.dts)
    \/ keybinds
    \/ game_setting
    \/ ground_change_detector
    \/ mouse_free_look
    \/ mouse_movement
    \/ stay_inside_big_ball_system
    \/ ApplyDeferred
    \/ PhysicsStep(in.bodies)
    \/ game_ui(in.settings)
    \/ Render

----------------------------------------------------------------------------
(* Inputs *)

DefaultSettings == [vsync |-> FALSE, ball_counter |-> 1, sensitivity |-> 5,
                    ground |-> <<2000, 100, 1500>>]

RestingBody == [pos |-> <<0, 1200, 0>>, vel |-> ZERO]

\* keys held in a frame
KeySets == {{}, {"ControlLeft"}, {"Space"}, {"ControlLeft", "KeyW"}, {"KeyW", "KeyS"},
            {"KeyA"}}

\* pointer motion of a frame
EventSets == {<<>>, << <<1, 0>> >>, << <<0, 1>>, <<2, 1>> >>}

\* panel edits
GroundSizes == {<<2000, 100, 1500>>, <<1000, 50, 1000>>, <<2000, 200, 1500>>,
                <<10000, 100, 1500>>}

\* offsets from the boundary's centre, each of integer length: the centre, inside,
\* on the limit, beyond it along an axis and along (3,4,0), (0,-3,4), (-4,0,3)
Offsets == {ZERO, <<0, -700, 0>>, <<300, 400, 0>>, <<0, 1330, 0>>,
            <<0, 1331, 0>>, <<0, 1400, 0>>, <<0, -1400, 0>>, <<1400, 0, 0>>,
            <<840, 1120, 0>>, <<0, -810, 1080>>, <<-1200, 0, 900>>}

\* velocities, multiples of 25 so that the reflections are exact
Velocities == {ZERO, <<0, -500, 0>>, <<0, 500, 0>>, <<500, 0, 0>>, <<-250, 0, 75>>,
               <<300, 400, 0>>, <<-400, 300, 0>>, <<0, 125, -250>>}

CursorInputs == [keys |-> KeySets, events |-> {<<>>}, dts |-> {0, 1},
                 settings |-> {[DefaultSettings EXCEPT !.vsync = TRUE, !.ball_counter = 100]},
                 bodies |-> {RestingBody}]

LookInputs == [keys |-> {{}, {"ControlLeft"}}, events |-> EventSets, dts |-> {1},
               settings |-> {[DefaultSettings EXCEPT !.sensitivity = 10]},
               bodies |-> {RestingBody}]

GroundInputs == [keys |-> {{}}, events |-> {<<>>}, dts |-> {1},
                 settings |-> {[DefaultSettings EXCEPT !.ground = g] : g \in GroundSizes},
                 bodies |-> {RestingBody}]

BallInputs == [keys |-> {{}}, events |-> {<<>>}, dts |-> {1},
               settings |-> {DefaultSettings},
               bodies |-> {[pos |-> Add(big_ball_center, o), vel |-> v] :
                              o \in Offsets, v \in Velocities}]

\* keys and the settings panel
Spec == Init /\ [][Next(CursorInputs)]_vars

\* pointer motion
SpecLook == Init /\ [][Next(LookInputs)]_vars

\* edits of the ground size
SpecGround == Init /\ [][Next(GroundInputs)]_vars

\* the ball under the physics step
SpecBall == Init /\ [][Next(BallInputs)]_vars

----------------------------------------------------------------------------
(* Properties *)

\* the step in which the Update system `name` runs
Step(name) == phase = "Update" /\ name \notin ran /\ name \in ran'

\* `name` has run in the current frame and the physics step has not followed yet
HasRun(name) ==
    \/ phase = "Update" /\ name \in ran
    \/ phase = "PostUpdate" /\ "physics" \notin ran

Limit == big_ball_radius - ball.radius - buffer

\* C1: after stay_inside_big_ball_system has run in a frame, the ball's distance
\* from the boundary's centre (0,19,0) is at most 14 - radius - 0.2, whatever
\* position and velocity the physics step gave it.
C1_Containment ==
    HasRun("stay_inside_big_ball_system") =>
        /\ ball.pos # NaN
        /\ Length(Sub(ball.pos, big_ball_center)) <= Limit

\* the ball was beyond the limit along (3,4,0), moving outward: it has been
\* put back on the limit and its velocity (3,4,0) reflected
C1_Witness ==
    /\ phase = "Update"
    /\ "stay_inside_big_ball_system" \in ran
    /\ ball.pos = Add(big_ball_center, <<798, 1064, 0>>)
    /\ ball.vel = <<-300, -400, 0>>

\* C2: exactly one Ground entity exists in every state from scene initialization
\* on, after any frames and any edits of ground_size.
C2_OneGround == Cardinality(grounds) = 1

\* the Ground has been regenerated with an edited size
C2_Witness ==
    /\ phase = "PostUpdate"
    /\ \E g \in grounds : g.dims = <<1000, 50, 1000>>
    /\ prev = <<1000, 50, 1000>>

\* C3: when ground_change_detector runs with GROUND_SIZE equal to
\* PreviousGroundSize it queues no despawn and no spawn and leaves
\* PreviousGroundSize and the Ground entities as they are; and every run leaves
\* PreviousGroundSize equal to GROUND_SIZE, so that a second run with unchanged
\* settings is such a run.
C3_Idempotent ==
    [][Step("ground_change_detector") =>
         /\ prev' = GROUND_SIZE
         /\ (GROUND_SIZE = prev =>
               commands' = commands /\ prev' = prev /\ grounds' = grounds)]_vars

\* the detector has run on an edited size that it had already applied in the frame
\* before, and has queued nothing
C3_Witness ==
    /\ phase = "Update"
    /\ "ground_change_detector" \in ran
    /\ GROUND_SIZE = <<2000, 200, 1500>>
    /\ prev = GROUND_SIZE
    /\ grounds = {[id |-> 0, dims |-> GROUND_SIZE]}
    /\ commands = <<>>

CursorFlags(w) == <<w.visible, w.grab_mode>>

ToggleStep == Step("keybinds") /\ "ControlLeft" \in keyboard.just_pressed

\* C4: in every reachable state, lock_hide_cursor applied twice gives back the
\* cursor's visibility and grab mode; and these change only in a step of keybinds
\* on a Left-Ctrl edge, by lock_hide_cursor.
C4_ToggleTwice ==
    /\ [](CursorFlags(lock_hide_cursor(lock_hide_cursor(window))) = CursorFlags(window))
    /\ [][CursorFlags(window') # CursorFlags(window) =>
            ToggleStep /\ window' = lock_hide_cursor(window)]_vars

\* the cursor has been captured and released again by two Left-Ctrl edges
C4_Witness ==
    /\ phase = "Update"
    /\ "keybinds" \in ran
    /\ "ControlLeft" \in keyboard.just_pressed
    /\ CursorFlags(window) = <<TRUE, "None">>
    /\ window.present_mode = "AutoVsync"

Released == <<TRUE, "None", TRUE>>
Captured == <<FALSE, "Confined", FALSE>>

\* C5 as stated: the window is always Released (visible, None, hit-testable) or
\* Captured (hidden, Confined, not hit-testable).
C5_Original == <<window.visible, window.grab_mode, window.hit_test>> \in {Released, Captured}

\* C5, amended: the cursor is always visible with grab mode None or hidden with
\* grab mode Confined, each toggle switches to the other, and hit-testing is
\* on in both.
C5_TwoStates ==
    /\ [](CursorFlags(window) \in {<<TRUE, "None">>, <<FALSE, "Confined">>})
    /\ [](window.hit_test = TRUE)
    /\ [][ToggleStep => CursorFlags(window') # CursorFlags(window)]_vars

\* the cursor has been captured by a Left-Ctrl edge
C5_Witness ==
    /\ phase = "Update"
    /\ "keybinds" \in ran
    /\ "ControlLeft" \in keyboard.just_pressed
    /\ CursorFlags(window) = <<FALSE, "Confined">>

Orientation(c) == <<c.yaw, c.pitch>>

\* C6: mouse_free_look leaves the orientation alone when the cursor is visible,
\* whatever motion events are pending; the orientation changes only in a step
\* of mouse_free_look taken while the cursor is hidden.
C6_NoRotationReleased ==
    [][/\ (Step("mouse_free_look") /\ window.visible = TRUE =>
             Orientation(cam') = Orientation(cam))
       /\ (Orientation(cam') # Orientation(cam) =>
             Step("mouse_free_look") /\ window.visible = FALSE)]_vars

\* the camera was turned while captured; the cursor is released, motion is
\* pending and mouse_free_look has run, with no toggle in this frame
C6_Witness ==
    /\ phase = "Update"
    /\ "mouse_free_look" \in ran
    /\ keyboard.just_pressed = {}
    /\ window.visible = TRUE
    /\ mouse_motion # <<>>
    /\ Orientation(cam) # <<0, 0>>

\* C7: when the ball is corrected (beyond the limit) and its velocity is not
\* outward (velocity . n >= 0 for the inward normal n), only its position moves;
\* the system changes the velocity only when velocity . n < 0.
C7_InwardUnchanged ==
    [][(Step("stay_inside_big_ball_system") /\ ball.pos # NaN) =>
         LET offset == Sub(ball.pos, big_ball_center)
             n == Neg(offset)
         IN  /\ (Length(offset) > Limit /\ Dot(ball.vel, n) >= 0 =>
                   /\ ball'.vel = ball.vel
                   /\ ball'.pos # ball.pos
                   /\ ball'.pos # NaN)
             /\ (ball'.vel # ball.vel => Dot(ball.vel, n) < 0)]_vars

\* the ball was beyond the limit along (3,4,0), moving down and so inward: it has
\* been put back on the limit and still has its velocity
C7_Witness ==
    /\ phase = "Update"
    /\ "stay_inside_big_ball_system" \in ran
    /\ ball.pos = Add(big_ball_center, <<798, 1064, 0>>)
    /\ ball.vel = <<0, -500, 0>>

\* C8 as stated: between frames PreviousGroundSize is the size of the Ground
\* that exists, and the detector regenerates the Ground only when GROUND_SIZE
\* differs from that size.
C8_Original ==
    /\ [](phase = "First" => \A g \in grounds : g.dims = prev)
    /\ [][(Step("ground_change_detector") /\ commands' # commands) =>
            \E g \in grounds : g.dims # GROUND_SIZE]_vars

\* the physics step of the current frame has run
PhysicsDone == phase = "PostUpdate" /\ "physics" \in ran

C10_ZeroDistance ==
    /\ [][(Step("stay_inside_big_ball_system") /\ ball.pos = big_ball_center) =>
            ball' = ball]_vars
    /\ [](ball.pos # NaN)

\* the system has run on a moving ball at the centre
C10_Witness ==
    /\ phase = "Update"
    /\ "stay_inside_big_ball_system" \in ran
    /\ ball.pos = big_ball_center
    /\ ball.vel = <<0, -500, 0>>

====
